---- MODULE Spec2Model ----
(***************************************************************************)
(* Model of web-server/httpd.py: the thread pool (Worker, ThreadPool), the *)
(* listener (WebServer.start, _listen) and the per-connection handler      *)
(* (WebServer._handle_client, _generate_headers).                          *)
(*                                                                         *)
(* A Python string is a sequence of chunks.  The separators the code       *)
(* splits and compares on (" ", "?", "/") are chunks of their own; every   *)
(* other chunk is a run of characters holding no separator.                *)
(***************************************************************************)
EXTENDS Integers, Sequences, FiniteSets, TLC

\* ------------------------------------------------------------------ bounds
MaxWorkers == 2
MaxConns == 2
MaxShutdowns == 2

Workers == 1..MaxWorkers
Conns == 1..MaxConns

\* ------------------------------------------------------- program constants
SocketTimeout == 60

doc_root == <<"DOCUMENT_ROOT">>

Body404 == <<"e404a", "e404b">>

Body405 == <<"e405a", "e405b">>

Unbound == <<"<unbound>">>

NoExc == "none"

\* ------------------------------------------------------------- file system
IndexPath == <<"DOCUMENT_ROOT", "/", "index", ".html">>

DirIndexPath == <<"DOCUMENT_ROOT", "/", "directory", "/", "index", ".html">>

SecretPath == <<"DOCUMENT_ROOT", "/", "..", "/", "secret">>

OtherIndexPath == <<"DOCUMENT_ROOT", "/", "other", "/", "index", ".html">>

NoFile == [exists |-> FALSE, bytes |-> <<>>]

File(b) == [exists |-> TRUE, bytes |-> b]

\* the contents index.html takes while the document root is edited
IndexVersions == {File(<<"idx1">>), File(<<"idx2", "idx3">>), NoFile}

\* the suffixes of the other files under the document root
StaticSuffixes == {".jpg", ".jpeg", ".png", ".gif", ".swf", ".css", ".js", ".txt"}

StaticPath(suffix) == <<"DOCUMENT_ROOT", "/", "static", suffix>>

InitialFs ==
  (IndexPath :> File(<<"idx1">>)) @@ (DirIndexPath :> File(<<"dir1">>))
    @@ (SecretPath :> File(<<"sec1">>)) @@ (OtherIndexPath :> File(<<"oth1">>))
    @@ [p \in {StaticPath(x) : x \in StaticSuffixes} |-> File(<<p[4]>>)]

\* open(path, 'rb') succeeds
CanOpen(files, path) == path \in DOMAIN files /\ files[path].exists

\* os.path.getsize(path)
getsize(files, path) == Len(files[path].bytes)

\* ----------------------------------------------------------- what peers do
Sp == " "

ReqGetIndex == <<"GET", Sp, "/", "index", ".html", Sp, "HTTP/1.1">>

ReqGetRoot == <<"GET", Sp, "/", Sp, "HTTP/1.1">>

ReqHeadIndex == <<"HEAD", Sp, "/", "index", ".html", Sp, "HTTP/1.1">>

ReqGetDir == <<"GET", Sp, "/", "directory", "/", Sp, "HTTP/1.1">>

ReqGetMissing == <<"GET", Sp, "/", "missing", ".png", Sp, "HTTP/1.1">>

ReqDelete == <<"DELETE", Sp, "/", "index", ".html", Sp, "HTTP/1.1">>

ReqNoPath == <<"GET">>

ReqHeadMissing == <<"HEAD", Sp, "/", "missing", ".png", Sp, "HTTP/1.1">>

ReqTraversal == <<"GET", Sp, "/", "..", "/", "secret", Sp, "HTTP/1.1">>

ReqGetOther == <<"GET", Sp, "/", "other", "/", Sp, "HTTP/1.1">>

ReqGetIndexQuery == <<"GET", Sp, "/", "index", ".html", "?", "q=1", Sp, "HTTP/1.1">>

ReqGetRootQuery == <<"GET", Sp, "/", "?", "q=1", Sp, "HTTP/1.1">>

ReqGetStatic(suffix) == <<"GET", Sp, "/", "static", suffix, Sp, "HTTP/1.1">>

Requests ==
  {ReqGetIndex, ReqGetRoot, ReqHeadIndex, ReqGetDir, ReqGetMissing, ReqDelete, ReqNoPath,
   ReqHeadMissing, ReqTraversal, ReqGetOther, ReqGetIndexQuery, ReqGetRootQuery}
    \cup {ReqGetStatic(x) : x \in StaticSuffixes}

Sends(d) == [kind |-> "data", data |-> d]

Eof == [kind |-> "eof", data |-> <<>>]

Silent == [kind |-> "silent", data |-> <<>>]

Reset == [kind |-> "reset", data |-> <<>>]

BadUtf8 == [kind |-> "badutf8", data |-> <<>>]

PeerBehaviours == {Sends(d) : d \in Requests} \cup {Eof, Silent, Reset, BadUtf8}

NoPeer == [kind |-> "none", data |-> <<>>]

\* ------------------------------------------------------------ str helpers
RECURSIVE split(_, _)
split(s, sep) ==
  IF \A i \in 1..Len(s) : s[i] # sep
    THEN <<s>>
    ELSE LET i == CHOOSE k \in 1..Len(s) : s[k] = sep /\ \A j \in 1..(k - 1) : s[j] # sep
         IN  <<SubSeq(s, 1, i - 1)>> \o split(SubSeq(s, i + 1, Len(s)), sep)

endswith(s, suffix) ==
  Len(s) >= Len(suffix) /\ SubSeq(s, Len(s) - Len(suffix) + 1, Len(s)) = suffix

\* ---------------------------------------------------------------- headers
Line(name, value, n) == [name |-> name, value |-> value, n |-> n]

DateLine == Line("Date", "now", 0)

ServerLine == Line("Server", "Mikhail Samoylov for Otus Python Server", 0)

ConnectionLine == Line("Connection", "close", 0)

\* a suffix table whose default is not text/html
mimetypeOctet(request_file) ==
  IF endswith(request_file, <<".jpg">>) \/ endswith(request_file, <<".jpeg">>)
    THEN "image/jpeg"
  ELSE IF endswith(request_file, <<".png">>) THEN "image/png"
  ELSE IF endswith(request_file, <<".gif">>) THEN "image/gif"
  ELSE IF endswith(request_file, <<".swf">>) THEN "application/x-shockwave-flash"
  ELSE IF endswith(request_file, <<".css">>) THEN "text/css"
  ELSE IF endswith(request_file, <<".js">>) THEN "application/javascript"
  ELSE IF endswith(request_file, <<".html">>) THEN "text/html"
  ELSE "application/octet-stream"

\* lines 95-110
mimetype(request_file) ==
  IF endswith(request_file, <<".jpg">>) \/ endswith(request_file, <<".jpeg">>)
    THEN "image/jpeg"
  ELSE IF endswith(request_file, <<".png">>) THEN "image/png"
  ELSE IF endswith(request_file, <<".gif">>) THEN "image/gif"
  ELSE IF endswith(request_file, <<".swf">>) THEN "application/x-shockwave-flash"
  ELSE IF endswith(request_file, <<".css">>) THEN "text/css"
  ELSE IF endswith(request_file, <<".js">>) THEN "application/javascript"
  ELSE IF endswith(request_file, <<".html">>) THEN "text/html"
  ELSE "text/html"

\* _generate_headers; for 200 the caller has checked that getsize can stat the file
generate_headers(response_code, request_file, files) ==
  (IF response_code = 200
     THEN <<Line("HTTP/1.1", "200 OK", 200),
            Line("Content-length", "", getsize(files, request_file)),
            Line("Content-type", mimetype(request_file), 0)>>
   ELSE IF response_code = 404
     THEN <<Line("HTTP/1.1", "404 Not Found", 404)>>
   ELSE <<>>)
  \o <<DateLine, ServerLine, ConnectionLine>>

\* a response on the wire: the header lines, then the body bytes
Wire(header, body) == [header |-> header, body |-> body]

NoWire == Wire(<<>>, <<>>)

WireLen(r) == Len(r.header) + Len(r.body)

\* the first n units of a response
Prefix(r, n) ==
  IF n <= Len(r.header)
    THEN Wire(SubSeq(r.header, 1, n), <<>>)
    ELSE Wire(r.header, SubSeq(r.body, 1, n - Len(r.header)))

\* -------------------------------------------------------------- the state
VARIABLES
  num_threads,        \* ThreadPool.__init__'s argument
  maxsize,            \* Queue.maxsize
  tasks,              \* the queue's items, oldest first
  unfinished_tasks,   \* Queue.unfinished_tasks, what join() waits on
  lpc,                \* where the main thread is
  exit_code,          \* the status the process exited with (-1: running)
  lsock,              \* self.socket: "created", then "listening", "shutdown" once shut down
  shutdowns,          \* how often shutdown() was called
  shutdown_raised,    \* the exception that left a call of shutdown()
  binds,              \* how often start() called bind
  accept_errors,      \* how often accept() raised
  client,             \* _listen's local
  accepted,           \* connections accepted so far; they are numbered in order
  peer,               \* what the peer of each connection being served does
  sock,               \* each accepted socket; once its job is done only the counters are kept
  fs,                 \* the files under (and next to) the document root
  wpc,                \* where each worker thread is
  job,                \* Worker.run's args: the client it handles
  data,
  request_method,
  filepath_to_serve,
  f,                  \* the handler's file object is open
  response_data,
  response,
  exc,                \* the exception the worker's current job raised
  dequeued,           \* the jobs in the order tasks.get() returned them
  executed,           \* per connection, how often func was called with it
  done,               \* per connection, how often task_done followed its job
  failures,           \* how many jobs raised
  read_bytes          \* per worker, what f.read() returned to the handler

vars ==
  <<num_threads, maxsize, tasks, unfinished_tasks, lpc, exit_code, lsock, shutdowns,
    shutdown_raised, binds, accept_errors, client, accepted, peer, sock, fs, wpc, job, data, request_method, filepath_to_serve, f,
    response_data, response, exc, dequeued, executed, done, failures, read_bytes>>

queueVars == <<maxsize, tasks, unfinished_tasks>>

startVars == <<lsock, shutdowns, shutdown_raised, binds, accept_errors>>

listenerVars == <<lpc, exit_code, client, accepted, peer, startVars>>

localVars == <<data, request_method, filepath_to_serve, f, response_data, response>>

ghostVars == <<dequeued, executed, done, failures, read_bytes>>

NewSocket == [timeout |-> 0, closes |-> 0, sends |-> 0, recvs |-> 0, sent |-> NoWire]

\* ------------------------------------------------------------------ queue
\* Queue() with no argument: maxsize 0, a queue without a bound
QueueUnbounded(n) == 0

\* Queue(num_threads)
QueueMaxsize(n) == n

\* Queue.put blocks while this holds
Full(q, m) == m > 0 /\ Len(q) >= m

\* a put that loses the item
QueuePutDrop(q, item) == q

\* Queue.put, once it may go ahead
QueuePut(q, item) == Append(q, item)

\* a get that returns the oldest item and leaves it in the queue
QueueGetPeek(q) == [item |-> Head(q), rest |-> q]

\* Queue.get, once the queue is not empty
QueueGet(q) == [item |-> Head(q), rest |-> Tail(q)]

\* -------------------------------------------------------------------- Init
Init ==
  /\ num_threads \in 1..MaxWorkers
  /\ maxsize = QueueMaxsize(num_threads)
  /\ tasks = <<>>
  /\ unfinished_tasks = 0
  /\ lpc = "start"
  /\ exit_code = -1
  /\ lsock = "created"
  /\ shutdowns = 0
  /\ shutdown_raised = NoExc
  /\ binds = 0
  /\ accept_errors = 0
  /\ client = 0
  /\ accepted = 0
  /\ peer = [c \in Conns |-> NoPeer]
  /\ sock = [c \in Conns |-> NewSocket]
  /\ fs = InitialFs
  /\ wpc = [w \in Workers |-> IF w <= num_threads THEN "get" ELSE "none"]
  /\ job = [w \in Workers |-> 0]
  /\ data = [w \in Workers |-> <<>>]
  /\ request_method = [w \in Workers |-> <<>>]
  /\ filepath_to_serve = [w \in Workers |-> <<>>]
  /\ f = [w \in Workers |-> FALSE]
  /\ response_data = [w \in Workers |-> Unbound]
  /\ response = [w \in Workers |-> NoWire]
  /\ exc = [w \in Workers |-> NoExc]
  /\ dequeued = <<>>
  /\ executed = [c \in Conns |-> 0]
  /\ done = [c \in Conns |-> 0]
  /\ failures = 0
  /\ read_bytes = [w \in Workers |-> Unbound]

\* ----------------------------------------------------------- main thread
\* WebServer.start: bind, then _listen's listen(5); a failed bind shuts down and exits 1
Running == -1

\* a start() that goes on to _listen whether or not bind raised
StartListensAnyway(bound) ==
  [lpc |-> "accept", exit_code |-> Running, lsock |-> IF bound THEN "listening" ELSE "created"]

\* lines 61-71: the else clause calls _listen, the except clause shutdown() and sys.exit(1)
StartOutcome(bound) ==
  IF bound
    THEN [lpc |-> "accept", exit_code |-> Running, lsock |-> "listening"]
    ELSE [lpc |-> "exited", exit_code |-> 1, lsock |-> "created"]

\* line 79: socket.shutdown(SHUT_RDWR) shuts a listening socket down; on a socket that
\* is not listening (never bound, or shut down before) it raises OSError
SocketShutdown(s) ==
  IF s = "listening"
    THEN [lsock |-> "shutdown", error |-> NoExc]
    ELSE [lsock |-> s, error |-> "OSError"]

\* a shutdown() with no try around the call
ShutdownReraises(e) == e

\* lines 80-81: except Exception: pass; the exception that leaves shutdown()
ShutdownLeaves(e) == NoExc

Start ==
  /\ lpc = "start"
  /\ \E bound \in BOOLEAN :
       /\ lpc' = StartOutcome(bound).lpc
       /\ exit_code' = StartOutcome(bound).exit_code
       /\ lsock' = StartOutcome(bound).lsock
       /\ IF bound
            THEN UNCHANGED <<shutdowns, shutdown_raised>>
            ELSE /\ shutdowns' = shutdowns + 1
                 /\ shutdown_raised' = ShutdownLeaves(SocketShutdown(lsock).error)
  /\ binds' = binds + 1
  /\ UNCHANGED <<num_threads, queueVars, accept_errors, client, accepted, peer, sock, fs,
                 wpc, job, localVars, exc, ghostVars>>

\* an accept failure that is logged, after which the loop goes round
AcceptErrorLogged == [lpc |-> "accept", exit_code |-> Running]

\* _listen has no handler around accept(): the exception leaves _listen, start() (whose
\* else clause no except covers) and main(), and the interpreter exits with status 1
AcceptError == [lpc |-> "exited", exit_code |-> 1]

\* line 129: accept() raises
AcceptFails ==
  /\ lpc = "accept"
  /\ accept_errors' = accept_errors + 1
  /\ lpc' = AcceptError.lpc
  /\ exit_code' = AcceptError.exit_code
  /\ UNCHANGED <<num_threads, queueVars, lsock, shutdowns, shutdown_raised, binds, client,
                 accepted, peer, sock, fs, wpc, job, localVars, exc, ghostVars>>

\* WebServer.shutdown, called by whoever holds the server object; main starts the
\* server as soon as it is constructed, so no call comes before start()
shutdown ==
  /\ lpc # "start"
  /\ shutdowns < MaxShutdowns
  /\ shutdowns' = shutdowns + 1
  /\ lsock' = SocketShutdown(lsock).lsock
  /\ shutdown_raised' = ShutdownLeaves(SocketShutdown(lsock).error)
  /\ UNCHANGED <<num_threads, queueVars, lpc, exit_code, binds, accept_errors, client,
                 accepted, peer, sock, fs, wpc, job, localVars, exc, ghostVars>>

\* _listen: accept() returns the next connection, settimeout(60)
Accept ==
  /\ lpc = "accept"
  /\ lsock = "listening"
  /\ accepted < MaxConns
  /\ \E p \in PeerBehaviours :
       /\ accepted' = accepted + 1
       /\ client' = accepted + 1
       /\ peer' = [peer EXCEPT ![accepted + 1] = p]
       /\ sock' = [sock EXCEPT ![accepted + 1].timeout = SocketTimeout]
  /\ lpc' = "add_task"
  /\ UNCHANGED <<num_threads, queueVars, exit_code, startVars, fs, wpc, job, localVars, exc,
                 ghostVars>>

\* ThreadPool.add_task: tasks.put((func, args, kargs))
add_task ==
  /\ lpc = "add_task"
  /\ ~Full(tasks, maxsize)
  /\ tasks' = QueuePut(tasks, client)
  /\ unfinished_tasks' = unfinished_tasks + 1
  /\ lpc' = "wait_completion"
  /\ UNCHANGED <<num_threads, maxsize, exit_code, startVars, client, accepted, peer, sock,
                 fs, wpc, job, localVars, exc, ghostVars>>

\* a join that returns while jobs are unfinished
JoinReturnsAtOnce(unfinished) == TRUE

\* Queue.join returns
JoinReturns(unfinished) == unfinished = 0

\* ThreadPool.wait_completion: tasks.join()
wait_completion ==
  /\ lpc = "wait_completion"
  /\ JoinReturns(unfinished_tasks)
  /\ lpc' = "accept"
  /\ UNCHANGED <<num_threads, queueVars, exit_code, startVars, client, accepted, peer, sock,
                 fs, wpc, job, localVars, exc, ghostVars>>

\* ----------------------------------------------------------------- worker
\* Worker.run: func, args, kargs = self.tasks.get(), then func is called
Get(w) ==
  /\ wpc[w] = "get"
  /\ Len(tasks) > 0
  /\ LET got == QueueGet(tasks)
     IN  /\ tasks' = got.rest
         /\ job' = [job EXCEPT ![w] = got.item]
         /\ dequeued' = Append(dequeued, got.item)
         /\ executed' = [executed EXCEPT ![got.item] = @ + 1]
  /\ wpc' = [wpc EXCEPT ![w] = "recv"]
  /\ UNCHANGED <<num_threads, maxsize, unfinished_tasks, listenerVars, sock, fs,
                 localVars, exc, done, failures, read_bytes>>

\* an exception leaves _handle_client
Raise(w, e) ==
  /\ wpc' = [wpc EXCEPT ![w] = "except"]
  /\ exc' = [exc EXCEPT ![w] = e]

\* a handler that goes round its while loop instead of leaving it
ReturnLoops(w) ==
  /\ wpc' = [wpc EXCEPT ![w] = "recv"]
  /\ exc' = exc

\* the handler returns (break out of the while loop)
Return(w) ==
  /\ wpc' = [wpc EXCEPT ![w] = "task_done"]
  /\ exc' = exc

\* data = client.recv(PACKET_SIZE).decode(); if not data: break
Recv(w) ==
  /\ wpc[w] = "recv"
  /\ LET c == job[w]
     IN  /\ peer[c].kind = "silent" => sock[c].timeout > 0
         /\ sock' = [sock EXCEPT ![c].recvs = @ + 1]
         /\ CASE peer[c].kind = "data" ->
                   /\ data' = [data EXCEPT ![w] = peer[c].data]
                   /\ wpc' = [wpc EXCEPT ![w] = "parse"]
                   /\ exc' = exc
              [] peer[c].kind = "eof" -> data' = [data EXCEPT ![w] = <<>>] /\ Return(w)
              [] peer[c].kind = "silent" -> data' = data /\ Raise(w, "timeout")
              [] peer[c].kind = "reset" -> data' = data /\ Raise(w, "ConnectionResetError")
              [] OTHER -> data' = data /\ Raise(w, "UnicodeDecodeError")
  /\ UNCHANGED <<num_threads, queueVars, listenerVars, fs, job, request_method,
                 filepath_to_serve, f, response_data, response, ghostVars>>

\* a handler that keeps the query string in the path
StripQueryKeep(file_requested) == file_requested

\* line 159: file_requested.split('?')[0]
StripQuery(file_requested) == split(file_requested, "?")[1]

\* lines 161-164: the two index substitutions
Resolve(file_requested) ==
  IF file_requested = <<"/">> THEN <<"/", "index", ".html">>
  ELSE IF file_requested = <<"/", "directory", "/">>
    THEN <<"/", "directory", "/", "index", ".html">>
  ELSE file_requested

\* a handler that serves the index file whatever path was asked for
FilePathIndex(root, file_requested) == root \o <<"/", "index", ".html">>

\* line 166
FilePath(root, file_requested) == root \o file_requested

\* lines 191-195
Response405 == Wire(generate_headers(405, <<>>, fs), Body405)

\* a response that carries response_data for HEAD as well
ResponseBodyAlways(method, body) == body

\* lines 184-185: only GET appends response_data
ResponseBody(method, body) == IF method = <<"GET">> THEN body ELSE <<>>

\* a 404 response that lacks its status line
Response404Bare(method, path) ==
  Wire(<<DateLine, ServerLine, ConnectionLine>>, ResponseBody(method, Body404))

\* lines 178-185, after the except clause
Response404(method, path) ==
  Wire(generate_headers(404, path, fs), ResponseBody(method, Body404))

\* lines 150-166 and, for another method, 191-195
Parse(w) ==
  /\ wpc[w] = "parse"
  /\ LET tokens == split(data[w], Sp)
         method == tokens[1]
     IN  /\ request_method' = [request_method EXCEPT ![w] = method]
         /\ IF method = <<"GET">> \/ method = <<"HEAD">>
              THEN IF Len(tokens) < 2
                     THEN /\ Raise(w, "IndexError")
                          /\ UNCHANGED <<filepath_to_serve, response_data, response>>
                     ELSE /\ filepath_to_serve' =
                               [filepath_to_serve EXCEPT
                                  ![w] = FilePath(doc_root, Resolve(StripQuery(tokens[2])))]
                          /\ wpc' = [wpc EXCEPT ![w] = "open"]
                          /\ UNCHANGED <<exc, response_data, response>>
              ELSE /\ response_data' = [response_data EXCEPT ![w] = Body405]
                   /\ response' = [response EXCEPT ![w] = Response405]
                   /\ wpc' = [wpc EXCEPT ![w] = "send"]
                   /\ UNCHANGED <<exc, filepath_to_serve>>
  /\ UNCHANGED <<num_threads, queueVars, listenerVars, sock, fs, job, data, f, ghostVars>>

\* the except clause of lines 176-182 and the response of 183-185
NotFound(w) ==
  /\ response_data' =
       [response_data EXCEPT ![w] = IF request_method[w] = <<"GET">> THEN Body404 ELSE @]
  /\ response' = [response EXCEPT ![w] = Response404(request_method[w], filepath_to_serve[w])]
  /\ wpc' = [wpc EXCEPT ![w] = "send"]

\* line 171: open(filepath_to_serve, 'rb')
Open(w) ==
  /\ wpc[w] = "open"
  /\ IF CanOpen(fs, filepath_to_serve[w])
       THEN /\ f' = [f EXCEPT ![w] = TRUE]
            /\ wpc' = [wpc EXCEPT ![w] = "read"]
            /\ UNCHANGED <<response_data, response>>
       ELSE /\ NotFound(w)
            /\ f' = f
  /\ UNCHANGED <<num_threads, queueVars, listenerVars, sock, fs, job, data, request_method,
                 filepath_to_serve, exc, ghostVars>>

\* a with block that leaves the file object as it found it
WithExitLeaks(open) == open

\* line 171: leaving the with block closes f, however the block is left
WithExit(open) == FALSE

\* lines 172-173 and the end of the with block: f.read() returns the bytes or raises
Read(w) ==
  /\ wpc[w] = "read"
  /\ f' = [f EXCEPT ![w] = WithExit(f[w])]
  /\ \/ /\ IF request_method[w] = <<"GET">>
               THEN /\ response_data' =
                         [response_data EXCEPT ![w] = fs[filepath_to_serve[w]].bytes]
                    /\ read_bytes' =
                         [read_bytes EXCEPT ![w] = fs[filepath_to_serve[w]].bytes]
               ELSE UNCHANGED <<response_data, read_bytes>>
        /\ wpc' = [wpc EXCEPT ![w] = "headers"]
        /\ response' = response
     \/ /\ request_method[w] = <<"GET">>
        /\ NotFound(w)
        /\ read_bytes' = read_bytes
  /\ UNCHANGED <<num_threads, queueVars, listenerVars, sock, fs, job, data, request_method,
                 filepath_to_serve, exc, dequeued, executed, done, failures>>

\* line 174, where os.path.getsize stats the path again, then lines 183-185
Headers(w) ==
  /\ wpc[w] = "headers"
  /\ IF CanOpen(fs, filepath_to_serve[w])
       THEN /\ response' =
                 [response EXCEPT
                    ![w] = Wire(generate_headers(200, filepath_to_serve[w], fs),
                                ResponseBody(request_method[w], response_data[w]))]
            /\ wpc' = [wpc EXCEPT ![w] = "send"]
            /\ response_data' = response_data
       ELSE NotFound(w)
  /\ UNCHANGED <<num_threads, queueVars, listenerVars, sock, fs, job, data, request_method,
                 filepath_to_serve, f, exc, ghostVars>>

\* lines 187 and 196: client.send(response) writes some of the buffer, or fails
Send(w) ==
  /\ wpc[w] = "send"
  /\ \/ \E n \in 1..WireLen(response[w]) :
          /\ sock' = [sock EXCEPT ![job[w]].sent = Prefix(response[w], n),
                                  ![job[w]].sends = @ + 1]
          /\ wpc' = [wpc EXCEPT ![w] = "close"]
          /\ exc' = exc
     \/ /\ Raise(w, "BrokenPipeError")
        /\ sock' = sock
  /\ UNCHANGED <<num_threads, queueVars, listenerVars, fs, job, localVars, ghostVars>>

\* lines 188-189 and 197-199: client.close(); break
Close(w) ==
  /\ wpc[w] = "close"
  /\ sock' = [sock EXCEPT ![job[w]].closes = @ + 1]
  /\ Return(w)
  /\ UNCHANGED <<num_threads, queueVars, listenerVars, fs, job, localVars, ghostVars>>

\* what `except OSError` would catch
IsOSError(e) == e \in {"timeout", "ConnectionResetError", "BrokenPipeError"}

\* the classes `except Exception` catches, among those the handler raises
IsException(e) ==
  e \in {"timeout", "ConnectionResetError", "BrokenPipeError", "UnicodeDecodeError",
         "IndexError"}

\* a worker whose except clause goes back to tasks.get() at once
AfterExceptSkips(e) == "get"

\* Worker.run, line 27 follows the except clause: task_done is not inside the try
AfterExcept(e) == "task_done"

\* Worker.run, lines 25-26: except Exception as e: print(e)
Except(w) ==
  /\ wpc[w] = "except"
  /\ IF IsException(exc[w])
       THEN /\ wpc' = [wpc EXCEPT ![w] = AfterExcept(exc[w])]
            /\ failures' = failures + 1
       ELSE /\ wpc' = [wpc EXCEPT ![w] = "dead"]
            /\ failures' = failures
  /\ UNCHANGED <<num_threads, queueVars, listenerVars, sock, fs, job, localVars, exc,
                 dequeued, executed, done, read_bytes>>

\* Worker.run, line 27: self.tasks.task_done(), and the loop goes round
task_done(w) ==
  /\ wpc[w] = "task_done"
  /\ unfinished_tasks' = unfinished_tasks - 1
  /\ done' = [done EXCEPT ![job[w]] = @ + 1]
  /\ wpc' = [wpc EXCEPT ![w] = "get"]
  /\ job' = [job EXCEPT ![w] = 0]
  /\ data' = [data EXCEPT ![w] = <<>>]
  /\ request_method' = [request_method EXCEPT ![w] = <<>>]
  /\ filepath_to_serve' = [filepath_to_serve EXCEPT ![w] = <<>>]
  /\ response_data' = [response_data EXCEPT ![w] = Unbound]
  /\ response' = [response EXCEPT ![w] = NoWire]
  /\ read_bytes' = [read_bytes EXCEPT ![w] = Unbound]
  /\ peer' = [peer EXCEPT ![job[w]] = NoPeer]
  /\ sock' = [sock EXCEPT ![job[w]].sent = NoWire]
  /\ exc' = [exc EXCEPT ![w] = NoExc]
  /\ UNCHANGED <<num_threads, maxsize, tasks, lpc, exit_code, startVars, client, accepted,
                 fs, f, dequeued, executed, failures>>

\* ------------------------------------------------------------ environment
\* somebody edits index.html in the document root
EditFile ==
  /\ \E v \in IndexVersions \ {fs[IndexPath]} : fs' = [fs EXCEPT ![IndexPath] = v]
  /\ UNCHANGED <<num_threads, queueVars, listenerVars, sock, wpc, job, localVars, exc,
                 ghostVars>>

Next ==
  \/ Start
  \/ Accept
  \/ AcceptFails
  \/ shutdown
  \/ add_task
  \/ wait_completion
  \/ \E w \in Workers : Get(w)
  \/ \E w \in Workers : Recv(w)
  \/ \E w \in Workers : Parse(w)
  \/ \E w \in Workers : Open(w)
  \/ \E w \in Workers : Read(w)
  \/ \E w \in Workers : Headers(w)
  \/ \E w \in Workers : Send(w)
  \/ \E w \in Workers : Close(w)
  \/ \E w \in Workers : Except(w)
  \/ \E w \in Workers : task_done(w)
  \/ EditFile

Spec == Init /\ [][Next]_vars

\* what worker thread w can do next
WorkerStep(w) ==
  \/ Get(w)
  \/ Recv(w)
  \/ Parse(w)
  \/ Open(w)
  \/ Read(w)
  \/ Headers(w)
  \/ Send(w)
  \/ Close(w)
  \/ Except(w)
  \/ task_done(w)

\* the threads are scheduled: a worker that can take a step takes one, and the main
\* thread leaves join() once it may
FairSpec ==
  /\ Spec
  /\ \A w \in Workers : WF_vars(WorkerStep(w))
  /\ WF_vars(wait_completion)

\* ================================================================ claims
\* the handler of worker w is over: it returned, or raised and was caught
HandlerOver(w) == wpc[w] = "task_done"

IOErrors == {"timeout", "ConnectionResetError", "BrokenPipeError"}

\* C1: every accepted connection is eventually closed by the server, on every path of
\* the handler; as a final result: a connection whose job is done has been closed
C1_DoneImpliesClosed == \A c \in Conns : done[c] > 0 => sock[c].closes > 0

\* C2: every accepted connection gets exactly one response and exactly one close, and
\* the whole response is written before the close
C2_OneResponseOneClose ==
  /\ \A c \in Conns : sock[c].sends <= 1 /\ sock[c].closes <= 1
  /\ \A w \in Workers :
       /\ wpc[w] = "task_done" =>
            sock[job[w]].sends = 1 /\ sock[job[w]].closes = 1
       /\ wpc[w] \in {"close", "task_done"} /\ sock[job[w]].sends = 1 =>
            sock[job[w]].sent = response[w]

\* C3: when no request is read (zero-byte read, read timeout) the handler writes no
\* response bytes and closes the connection
C3_NoRequestClosesSilently ==
  \A w \in Workers :
    HandlerOver(w) /\ peer[job[w]].kind \in {"eof", "silent"} =>
      sock[job[w]].sends = 0 /\ sock[job[w]].sent = NoWire /\ sock[job[w]].closes = 1

\* C4: a per-connection I/O failure stays inside the handler: it never reaches the
\* worker loop's except clause, and the connection is closed
C4_IOFailureContained ==
  \A w \in Workers :
    /\ wpc[w] = "except" => exc[w] \notin IOErrors
    /\ HandlerOver(w) /\ exc[w] \in IOErrors => sock[job[w]].closes = 1

\* C5: a failing job never terminates its worker: every one of the N workers stays in
\* its dequeue loop and goes on to execute later jobs
C5_WorkersSurvive ==
  \A w \in Workers :
    /\ w <= num_threads =>
         wpc[w] \in {"get", "recv", "parse", "open", "read", "headers", "send", "close",
                     "except", "task_done"}
    /\ w > num_threads => wpc[w] = "none"

\* a worker that caught a failing job is executing a later one
C5_Witness == failures > 0 /\ num_threads = 1 /\ wpc[1] = "recv"

\* add_task has put connection c on the queue
Enqueued(c) == c <= accepted /\ ~(lpc = "add_task" /\ client = c)

InQueue(c) == Cardinality({i \in 1..Len(tasks) : tasks[i] = c})

Holders(c) == Cardinality({w \in Workers : job[w] = c})

\* C6: no job is lost or duplicated: a job that was added is in the queue, or with
\* exactly one worker, or done once; it is executed at most once, and when join()
\* has returned every job added so far has been executed exactly once
C6_ExactlyOnce ==
  /\ \A c \in Conns :
       /\ Enqueued(c) => InQueue(c) + Holders(c) + done[c] = 1
       /\ Enqueued(c) => InQueue(c) + executed[c] = 1
       /\ ~Enqueued(c) => InQueue(c) + Holders(c) + done[c] + executed[c] = 0
  /\ lpc = "accept" => \A c \in 1..accepted : executed[c] = 1 /\ done[c] = 1

\* two jobs have been added and each was executed and marked done once
C6_Witness == accepted >= 2 /\ lpc = "accept" /\ done[1] = 1 /\ done[2] = 1

\* C7: jobs are dequeued in the order their connections were accepted (connections
\* are numbered in accept order)
C7_Fifo == \A i \in 1..Len(dequeued) : dequeued[i] = i

C7_Witness == Len(dequeued) >= 2

\* C8: the queue is bounded by the capacity fixed at construction: it never holds
\* more than maxsize jobs, a put goes ahead only below capacity, a get only on a
\* non-empty queue, and the jobs added but not finished stay bounded
C8_Bounded ==
  /\ [](/\ maxsize = num_threads
        /\ maxsize > 0
        /\ Len(tasks) <= maxsize
        /\ unfinished_tasks <= maxsize + num_threads)
  /\ [][/\ Len(tasks') > Len(tasks) => Len(tasks) < maxsize
        /\ (\E w \in Workers : wpc[w] = "get" /\ wpc'[w] # "get") => Len(tasks) > 0]_vars

\* the queue is at capacity while the listener waits
C8_Witness == Len(tasks) = maxsize /\ lpc = "wait_completion"

\* what may come back for a request: the status, and the bodies of its own path
OwnStatus(d) ==
  IF d \in {ReqGetIndex, ReqGetRoot, ReqHeadIndex, ReqGetIndexQuery, ReqGetRootQuery}
    THEN {200, 404}
  ELSE IF d \in {ReqGetDir, ReqTraversal} THEN {200, 404}
  ELSE IF d \in {ReqGetStatic(x) : x \in StaticSuffixes} THEN {200, 404}
  ELSE IF d \in {ReqGetMissing, ReqHeadMissing, ReqGetOther} THEN {404}
  ELSE {405}

OwnBodies(d) ==
  IF d \in {ReqGetIndex, ReqGetRoot, ReqGetIndexQuery, ReqGetRootQuery}
    THEN {<<"idx1">>, <<"idx2", "idx3">>, Body404}
  ELSE IF d \in {ReqHeadIndex, ReqHeadMissing} THEN {<<>>}
  ELSE IF d = ReqGetDir THEN {<<"dir1">>, Body404}
  ELSE IF d = ReqTraversal THEN {<<"sec1">>, Body404}
  ELSE IF d \in {ReqGetStatic(x) : x \in StaticSuffixes} THEN {<<d[5]>>, Body404}
  ELSE IF d \in {ReqGetMissing, ReqGetOther} THEN {Body404}
  ELSE {Body405}

IsPrefix(a, b) == Len(a) <= Len(b) /\ a = SubSeq(b, 1, Len(a))

StatusOf(header) ==
  IF Len(header) > 0 /\ header[1].name = "HTTP/1.1" THEN header[1].n ELSE 405

\* C9: every connection that sent a request is served, and with no cross-talk: the
\* response it gets is computed from its own request's path
C9_NoCrossTalk ==
  \A w \in Workers :
    LET c == job[w] IN
      /\ HandlerOver(w) /\ peer[c].kind = "data" /\ exc[w] = NoExc =>
           sock[c].sends = 1 /\ sock[c].closes = 1
      /\ wpc[w] \in {"close", "task_done"} /\ sock[c].sends = 1 =>
           /\ StatusOf(sock[c].sent.header) \in OwnStatus(peer[c].data)
           /\ \E b \in OwnBodies(peer[c].data) : IsPrefix(sock[c].sent.body, b)

\* at least as many connections as workers, the earlier one served, and this one has
\* got the whole of the other file
C9_Witness ==
  \E w \in Workers :
    /\ HandlerOver(w) /\ accepted >= 2 /\ accepted >= num_threads
    /\ job[w] = 2 /\ done[1] = 1 /\ sock[1].sends = 1
    /\ peer[2].data = ReqGetDir
    /\ sock[2].sent = response[w] /\ sock[2].sent.body = <<"dir1">>

ContentLength(header) ==
  IF \E i \in 1..Len(header) : header[i].name = "Content-length"
    THEN header[CHOOSE i \in 1..Len(header) : header[i].name = "Content-length"].n
    ELSE -1

\* C10: a GET of a file that exists gets 200, a Content-Length equal to the byte
\* count of the content sent, and a body identical to the file's contents
C10_BodyIsFile ==
  \A w \in Workers :
    HandlerOver(w) /\ request_method[w] = <<"GET">> /\ read_bytes[w] # Unbound
      /\ sock[job[w]].sends = 1 =>
        /\ StatusOf(sock[job[w]].sent.header) = 200
        /\ ContentLength(sock[job[w]].sent.header) = Len(sock[job[w]].sent.body)
        /\ sock[job[w]].sent.body = read_bytes[w]

\* the handler of worker w has built its response
Responding(w) == wpc[w] \in {"send", "close", "task_done"} /\ response[w] # NoWire

HasStatus(header, code) ==
  Len(header) > 0 /\ header[1].name = "HTTP/1.1" /\ header[1].n = code

\* the header a GET of /index.html is answered with when the file holds n bytes
GetIndexHeader(n) ==
  <<[name |-> "HTTP/1.1", value |-> "200 OK", n |-> 200],
    [name |-> "Content-length", value |-> "", n |-> n],
    [name |-> "Content-type", value |-> "text/html", n |-> 0],
    DateLine, ServerLine, ConnectionLine>>

\* C11: a HEAD of an existing file has an empty body, and its status line and headers
\* (the timestamp apart) are those of the GET response for the same path
C11_HeadLikeGet ==
  \A w \in Workers :
    /\ Responding(w) /\ filepath_to_serve[w] = IndexPath
         /\ HasStatus(response[w].header, 200) =>
           \E n \in 1..2 : response[w].header = GetIndexHeader(n)
    /\ Responding(w) /\ request_method[w] = <<"HEAD">> =>
         response[w].body = <<>> /\ sock[job[w]].sent.body = <<>>

\* a HEAD of the existing index file has been answered in full
C11_Witness ==
  \E w \in Workers :
    /\ HandlerOver(w) /\ request_method[w] = <<"HEAD">>
    /\ HasStatus(response[w].header, 200)
    /\ sock[job[w]].sends = 1 /\ sock[job[w]].sent = response[w]

NotFoundFor(w) ==
  /\ HasStatus(response[w].header, 404)
  /\ request_method[w] = <<"GET">> => response[w].body = Body404
  /\ request_method[w] = <<"HEAD">> => response[w].body = <<>>

\* C12: a GET or HEAD whose resolved file cannot be opened is answered 404, with the
\* fixed 404 page as the body for GET and no body for HEAD
C12_NotFound ==
  /\ [](\A w \in Workers :
          Responding(w) /\ peer[job[w]].data \in {ReqGetMissing, ReqHeadMissing} =>
            NotFoundFor(w))
  /\ [][\A w \in Workers :
          wpc[w] = "open" /\ wpc'[w] # "open" /\ ~CanOpen(fs, filepath_to_serve[w]) =>
            wpc'[w] = "send" /\ NotFoundFor(w)']_vars

\* a HEAD of a missing file has been answered in full
C12_Witness ==
  \E w \in Workers :
    /\ HandlerOver(w) /\ peer[job[w]].data = ReqHeadMissing
    /\ sock[job[w]].sends = 1 /\ sock[job[w]].sent = response[w]
    /\ HasStatus(sock[job[w]].sent.header, 404)

\* C13: a request whose method is neither GET nor HEAD is answered with a status line
\* of code 405 followed by the fixed 405 body
C13_MethodNotAllowed ==
  \A w \in Workers :
    Responding(w) /\ peer[job[w]].data = ReqDelete =>
      HasStatus(response[w].header, 405) /\ response[w].body = Body405

\* C14: a path that resolves outside the document root is answered 404, and no
\* response carries the bytes of a file outside the document root
C14_NoTraversal ==
  /\ \A w \in Workers :
       Responding(w) /\ peer[job[w]].data = ReqTraversal => HasStatus(response[w].header, 404)
  /\ \A c \in Conns : \A i \in 1..Len(sock[c].sent.body) : sock[c].sent.body[i] # "sec1"

HeaderNames(header) == [i \in 1..Len(header) |-> header[i].name]

\* C15: every response is a status line, then Date, Server, Content-Length,
\* Content-Type and Connection: close, all present and in that order
C15_HeaderOrder ==
  \A w \in Workers :
    Responding(w) =>
      /\ HeaderNames(response[w].header) =
           <<"HTTP/1.1", "Date", "Server", "Content-length", "Content-type", "Connection">>
      /\ response[w].header[6].value = "close"

\* C16: a 404 or 405 response carries a Content-Length equal to the byte length of the
\* fixed error body
C16_ErrorContentLength ==
  \A w \in Workers :
    /\ Responding(w) /\ HasStatus(response[w].header, 404) =>
         ContentLength(response[w].header) = Len(Body404)
    /\ Responding(w) /\ request_method[w] \notin {<<"GET">>, <<"HEAD">>} =>
         ContentLength(response[w].header) = Len(Body405)

\* the file each request names, by the rules of the path resolver
ResolvedPath(d) ==
  IF d \in {ReqGetIndex, ReqHeadIndex, ReqGetRoot, ReqGetIndexQuery, ReqGetRootQuery}
    THEN IndexPath
  ELSE IF d \in {ReqGetStatic(x) : x \in StaticSuffixes} THEN <<"DOCUMENT_ROOT">> \o SubSeq(d, 3, 5)
  ELSE IF d = ReqGetDir THEN DirIndexPath
  ELSE IF d = ReqGetOther THEN OtherIndexPath
  ELSE IF d = ReqTraversal THEN SecretPath
  ELSE <<"DOCUMENT_ROOT", "/", "missing", ".png">>

\* C17: "/" resolves to the index file of the document root, every other path ending
\* in "/" to the index file under it, and every other path to itself under the root
C17_IndexSubstitution ==
  \A w \in Workers :
    wpc[w] = "open" => filepath_to_serve[w] = ResolvedPath(peer[job[w]].data)

\* C18: a malformed first line never crashes the handler: the client gets a response
\* or sees the connection closed
C18_MalformedHandled ==
  \A w \in Workers :
    /\ wpc[w] = "except" => peer[job[w]].data # ReqNoPath
    /\ HandlerOver(w) /\ peer[job[w]].data = ReqNoPath =>
         sock[job[w]].sends = 1 \/ sock[job[w]].closes = 1

BindFailed == binds > 0 /\ lsock = "created"

\* C19: when bind fails, start() exits the process with a non-zero status, without
\* binding again and without ever entering the accept loop
C19_BindFailureExits ==
  /\ binds <= 1
  /\ BindFailed =>
       /\ lpc = "exited" /\ exit_code > 0
       /\ accepted = 0 /\ accept_errors = 0

C19_Witness == BindFailed /\ lpc = "exited" /\ exit_code = 1

\* C20: a failed accept is transient: the accept loop goes on and later connections are
\* still accepted
C20_AcceptContinues == accept_errors > 0 => lpc # "exited" /\ exit_code = Running

\* C21: shutdown() never raises, whatever state the server is in, and calling it
\* again changes nothing: a call on a socket that is not listening leaves the socket
\* as it was, and no call leaves it listening
C21_ShutdownIdempotent ==
  /\ [](shutdown_raised = NoExc)
  /\ [][shutdowns' > shutdowns =>
          /\ lsock' # "listening"
          /\ lsock # "listening" => lsock' = lsock]_vars

\* shutdown() was called twice on a server that had been listening
C21_Witness == shutdowns >= 2 /\ lsock = "shutdown" /\ shutdown_raised = NoExc

\* C22: the handler goes forward only: it reads the connection exactly once, the path
\* and the response are set after the read and not before, the response is written
\* once after it is set, and the close follows the write
C22_StrictlyForward ==
  \A w \in Workers :
    job[w] # 0 =>
      LET s == sock[job[w]]
      IN  /\ s.recvs <= 1 /\ s.sends <= 1 /\ s.closes <= 1
          /\ wpc[w] = "recv" => s.recvs = 0
          /\ wpc[w] \in {"parse", "open", "read", "headers", "send", "close", "except",
                         "task_done"} => s.recvs = 1
          /\ wpc[w] \in {"recv", "parse"} => filepath_to_serve[w] = <<>>
          /\ wpc[w] \in {"recv", "parse", "open", "read", "headers"} =>
               response[w] = NoWire /\ s.sends = 0 /\ s.closes = 0
          /\ wpc[w] = "send" => response[w] # NoWire /\ s.sends = 0 /\ s.closes = 0
          /\ wpc[w] = "close" => s.sends = 1 /\ s.closes = 0
          /\ s.closes = 1 => s.sends = 1 /\ wpc[w] = "task_done"

\* a handler is over after one read, one write and one close
C22_Witness ==
  \E w \in Workers :
    /\ HandlerOver(w)
    /\ sock[job[w]].recvs = 1 /\ sock[job[w]].sends = 1 /\ sock[job[w]].closes = 1

\* C23: a file object is open only in the worker that opened it, only while that
\* worker is inside the with block of its current job; it is closed before the
\* response is written, on the 404 paths as well
C23_FileClosed ==
  \A w \in Workers : f[w] => wpc[w] = "read" /\ job[w] # 0

\* a read of an existing file failed, and the 404 response is about to be written
\* with the file closed
C23_Witness ==
  \E w \in Workers :
    /\ wpc[w] = "send" /\ ~f[w]
    /\ filepath_to_serve[w] = StaticPath(".png")
    /\ HasStatus(response[w].header, 404)

\* C24: a request for /index.html?q=1 or /?q=1 resolves to the path that /index.html
\* and / resolve to, and is answered as a GET of these is: 200 with the headers and
\* the bytes of the index file, or 404 with the fixed page
C24_QueryDiscarded ==
  \A w \in Workers :
    job[w] # 0 /\ peer[job[w]].data \in {ReqGetIndexQuery, ReqGetRootQuery} =>
      /\ wpc[w] \in {"open", "read", "headers", "send", "close"} =>
           filepath_to_serve[w] = IndexPath
      /\ Responding(w) =>
           IF HasStatus(response[w].header, 200)
             THEN /\ \E n \in 1..2 : response[w].header = GetIndexHeader(n)
                  /\ response[w].body \in {<<>>, <<"idx1">>, <<"idx2", "idx3">>}
             ELSE NotFoundFor(w)

\* a GET of /index.html?q=1 was answered with the index file
C24_Witness ==
  \E w \in Workers :
    /\ HandlerOver(w) /\ peer[job[w]].data = ReqGetIndexQuery
    /\ response[w] = Wire(GetIndexHeader(1), <<"idx1">>)
    /\ sock[job[w]].sent = response[w]

\* the Content-Type the suffix table gives
TypeOfSuffix(suffix) ==
  CASE suffix \in {".jpg", ".jpeg"} -> "image/jpeg"
    [] suffix = ".png" -> "image/png"
    [] suffix = ".gif" -> "image/gif"
    [] suffix = ".swf" -> "application/x-shockwave-flash"
    [] suffix = ".css" -> "text/css"
    [] suffix = ".js" -> "application/javascript"
    [] OTHER -> "text/html"

\* C25: a 200 response carries the Content-Type the suffix table gives for the last
\* part of the served path, text/html when the table has no entry for it
C25_ContentType ==
  \A w \in Workers :
    Responding(w) /\ HasStatus(response[w].header, 200) =>
      /\ response[w].header[3].name = "Content-type"
      /\ response[w].header[3].value =
           TypeOfSuffix(filepath_to_serve[w][Len(filepath_to_serve[w])])

\* a file whose suffix is not in the table was served as text/html
C25_Witness ==
  \E w \in Workers :
    /\ HandlerOver(w) /\ peer[job[w]].data = ReqGetStatic(".txt")
    /\ HasStatus(response[w].header, 200)
    /\ response[w].header[3].value = "text/html"
    /\ sock[job[w]].sends = 1

Busy(w) == wpc[w] \notin {"get", "none", "dead"}

\* C26: the listener serializes the connections: at most one job is queued or being
\* executed, whatever the number of workers; the listener is back at accept only
\* when no job is unfinished, and add_task never finds the queue full
C26_Serialized ==
  /\ Len(tasks) + Cardinality({w \in Workers : Busy(w)}) <= 1
  /\ unfinished_tasks <= 1
  /\ lpc = "accept" => unfinished_tasks = 0
  /\ lpc = "add_task" => unfinished_tasks = 0 /\ ~Full(tasks, maxsize)

\* with two workers, the second connection is being served while one worker idles
C26_Witness ==
  /\ num_threads = 2 /\ accepted = 2 /\ lpc = "wait_completion"
  /\ \E w \in Workers : job[w] = 2 /\ wpc[w] = "send"
  /\ \E w \in Workers : wpc[w] = "get"

WasDequeued(c) == \E i \in 1..Len(dequeued) : dequeued[i] = c

\* C27: a dequeued job is marked done exactly once when its handler is over, whether
\* it returned or raised; the unfinished count is the number of jobs queued or being
\* executed, so it returns to zero, and the listener that waits in wait_completion
\* gets back to accept
C27_DoneOnce ==
  /\ [](/\ \A c \in Conns :
             done[c] = IF WasDequeued(c) /\ ~\E w \in Workers : Busy(w) /\ job[w] = c
                         THEN 1 ELSE 0
        /\ unfinished_tasks = Len(tasks) + Cardinality({w \in Workers : Busy(w)}))
  /\ (lpc = "wait_completion" ~> lpc = "accept")

\* a job raised, was marked done, and the listener is back at accept
C27_Witness ==
  /\ lpc = "accept" /\ unfinished_tasks = 0 /\ done[1] = 1
  /\ failures > 0

====
